---------------------------- MODULE Spec2Model ----------------------------
(***************************************************************************)
(* Carr-Madan FFT option pricer (crate fft: lib.rs, bin/bs.rs,             *)
(* bin/heston.rs, bin/vg.rs).                                              *)
(*                                                                         *)
(* Numbers.  An f64 is modelled as a fixed-point number: the integer v     *)
(* stands for v / Scale, every product and quotient is rounded to the      *)
(* nearest unit, a magnitude above MaxFin overflows to an infinity, and    *)
(* the three non-finite values of IEEE 754 are kept (PInf, NInf, NaN) with *)
(* their arithmetic.  The signed zero is not modelled (x / 0 takes the     *)
(* sign of x).  The elementary functions of std (exp, ln, sin, cos, sqrt,  *)
(* atan2) are computed by series on this format.                           *)
(***************************************************************************)
EXTENDS Integers, Sequences, FiniteSets

Scale == 2^10
MaxFin == 2^20
PInf == MaxFin + 1
NInf == -(MaxFin + 1)
NaN == MaxFin + 2

IsNaN(x) == x = NaN
IsInf(x) == x = PInf \/ x = NInf
IsFinite(x) == ~IsNaN(x) /\ ~IsInf(x)
AbsI(i) == IF i < 0 THEN -i ELSE i
SgnI(i) == IF i < 0 THEN -1 ELSE IF i > 0 THEN 1 ELSE 0

\* a magnitude and a sign, overflowing to the infinity of that sign
Ovf(neg, mag) == IF mag > MaxFin THEN (IF neg THEN NInf ELSE PInf)
                 ELSE (IF neg THEN -mag ELSE mag)

\* the literal num / den (1.01 is Dec(101, 100)), rounded to the nearest unit
Dec(num, den) == SgnI(num) * ((AbsI(num) * Scale + den \div 2) \div den)
\* usize as f64
FromInt(i) == Ovf(i < 0, AbsI(i) * Scale)

Neg(a) == IF IsNaN(a) THEN NaN ELSE -a
Abs(a) == IF IsNaN(a) THEN NaN ELSE AbsI(a)
\* the comparisons of f64: any comparison with NaN is false
Lt(a, b) == ~IsNaN(a) /\ ~IsNaN(b) /\ a < b
Le(a, b) == ~IsNaN(a) /\ ~IsNaN(b) /\ a <= b

Add(a, b) ==
  IF IsNaN(a) \/ IsNaN(b) THEN NaN
  ELSE IF IsInf(a) THEN (IF IsInf(b) /\ a # b THEN NaN ELSE a)
  ELSE IF IsInf(b) THEN b
  ELSE Ovf(a + b < 0, AbsI(a + b))

Sub(a, b) == Add(a, Neg(b))

Mul(a, b) ==
  IF IsNaN(a) \/ IsNaN(b) THEN NaN
  ELSE IF IsInf(a) \/ IsInf(b)
       THEN (IF a = 0 \/ b = 0 THEN NaN
             ELSE IF SgnI(a) * SgnI(b) < 0 THEN NInf ELSE PInf)
  ELSE LET x == AbsI(a)
           y == AbsI(b)
           xh == x \div Scale
           xl == x % Scale
       IN Ovf(SgnI(a) * SgnI(b) < 0,
              xh * y + ((xl * y + Scale \div 2) \div Scale))

Div(a, b) ==
  IF IsNaN(a) \/ IsNaN(b) THEN NaN
  ELSE IF IsInf(a)
       THEN (IF IsInf(b) THEN NaN
             ELSE IF SgnI(a) * (IF b < 0 THEN -1 ELSE 1) < 0 THEN NInf ELSE PInf)
  ELSE IF IsInf(b) THEN 0
  ELSE IF b = 0
       THEN (IF a = 0 THEN NaN ELSE IF a < 0 THEN NInf ELSE PInf)
  ELSE LET x == AbsI(a)
           y == AbsI(b)
       IN Ovf(SgnI(a) * SgnI(b) < 0, (x * Scale + y \div 2) \div y)


(***************************************************************************)
(* Constants of std::f64::consts and the elementary functions of std.      *)
(***************************************************************************)
One == Scale
PI == Dec(355, 113)
HalfPi == Dec(355, 226)
LnTwo(k) == SgnI(k) * ((AbsI(k) * 709783 + 500) \div 1000)   \* k * ln 2

\* x / d for an integer d > 0, rounded to the nearest unit
Quot(x, d) == SgnI(x) * ((AbsI(x) + d \div 2) \div d)
Pow2(k) == 2^k

\* e^r for |r| <= ln(2)/2, by the series to the fifth power
ExpSmall(r) ==
  One + Mul(r, One + Mul(Quot(r, 2), One + Mul(Quot(r, 3),
        One + Mul(Quot(r, 4), One + Quot(r, 5)))))

\* f64::exp: e^x = 2^k * e^r with x = k ln 2 + r
Exp(x) ==
  IF IsNaN(x) THEN NaN
  ELSE IF x = PInf \/ x > 8 * Scale THEN PInf
  ELSE IF x = NInf \/ x < -(8 * Scale) THEN 0
  ELSE LET k == (x * 1000 + 354891) \div 709783
           r == x - LnTwo(k)
           b == ExpSmall(r)
       IN IF k >= 0 THEN Ovf(FALSE, b * Pow2(k)) ELSE Quot(b, Pow2(-k))

RECURSIVE Log2Floor(_)
\* the largest k with 2^k <= i, for an integer i >= 1
Log2Floor(i) == IF i < 2 THEN 0 ELSE 1 + Log2Floor(i \div 2)

\* 2 * atanh(y) for 0 <= y <= 1/3, by the series to the seventh power
TwoAtanh(y) ==
  LET y2 == Mul(y, y)
  IN 2 * Mul(y, One + Mul(y2, Quot(One, 3) + Mul(y2, Quot(One, 5) + Mul(y2, Quot(One, 7)))))

\* f64::ln: ln of a negative number is NaN, ln 0 is -inf;
\* ln x = k ln 2 + ln m with x = 2^k m, 1 <= m < 2, ln m = 2 atanh((m-1)/(m+1))
Ln(x) ==
  IF IsNaN(x) \/ x < 0 THEN NaN
  ELSE IF x = 0 THEN NInf
  ELSE IF x = PInf THEN PInf
  ELSE LET k == Log2Floor(x) - Log2Floor(Scale)
           xs == IF k < 0 THEN x * Pow2(-k) ELSE x
           s == IF k < 0 THEN Scale ELSE Scale * Pow2(k)
           y == ((xs - s) * Scale + (xs + s) \div 2) \div (xs + s)
       IN LnTwo(k) + TwoAtanh(y)

\* x reduced to (-pi, pi]
ReduceAngle(x) ==
  LET r == x % (2 * PI)
  IN IF r > PI THEN r - 2 * PI ELSE r

\* sin r for |r| <= pi/2, by the series to the ninth power
SinSmall(r) ==
  LET r2 == Mul(r, r)
  IN Mul(r, One - Mul(Quot(r2, 6), One - Mul(Quot(r2, 20),
            One - Mul(Quot(r2, 42), One - Quot(r2, 72)))))

\* f64::sin
Sin(x) ==
  IF ~IsFinite(x) THEN NaN
  ELSE LET r == ReduceAngle(x)
       IN IF r > HalfPi THEN SinSmall(PI - r)
          ELSE IF r < -HalfPi THEN SinSmall(-PI - r)
          ELSE SinSmall(r)

\* cos r for |r| <= pi/2, by the series to the eighth power
CosSmall(r) ==
  LET r2 == Mul(r, r)
  IN One - Mul(Quot(r2, 2), One - Mul(Quot(r2, 12),
           One - Mul(Quot(r2, 30), One - Quot(r2, 56))))

\* f64::cos
Cos(x) ==
  IF ~IsFinite(x) THEN NaN
  ELSE LET r == ReduceAngle(x)
       IN IF r > HalfPi THEN -CosSmall(PI - r)
          ELSE IF r < -HalfPi THEN -CosSmall(-PI - r)
          ELSE CosSmall(r)

RECURSIVE IsqrtIn(_, _, _)
\* the largest s in lo..hi with s * s <= i (bisection)
IsqrtIn(i, lo, hi) ==
  IF lo >= hi THEN lo
  ELSE LET mid == (lo + hi + 1) \div 2
       IN IF mid * mid <= i THEN IsqrtIn(i, mid, hi) ELSE IsqrtIn(i, lo, mid - 1)

\* f64::sqrt: the square root of a negative number is NaN
Sqrt(x) ==
  IF IsNaN(x) \/ x < 0 THEN NaN
  ELSE IF x = PInf THEN PInf
  ELSE LET i == x * Scale
           s == IsqrtIn(i, 0, 32768)
       IN IF i - s * s > s THEN s + 1 ELSE s

\* atan w for |w| <= tan(pi/8), by the series to the ninth power
AtanSmall(w) ==
  LET w2 == Mul(w, w)
  IN Mul(w, One - Mul(w2, Quot(One, 3) - Mul(w2, Quot(One, 5)
            - Mul(w2, Quot(One, 7) - Quot(w2, 9)))))

\* atan z for 0 <= z <= 1
AtanUnit(z) ==
  IF z > Dec(414, 1000) THEN Quot(PI, 4) + AtanSmall(Div(z - One, z + One))
  ELSE AtanSmall(z)

\* atan z for z >= 0, +inf included
AtanPos(z) ==
  IF z = PInf THEN HalfPi
  ELSE IF z > One THEN HalfPi - AtanUnit(Div(One, z))
  ELSE AtanUnit(z)

\* the angle of a point whose angle to the x axis is a, by its quadrant
Quadrant(a, y, x) ==
  IF x > 0 THEN (IF y < 0 THEN -a ELSE a)
  ELSE (IF y < 0 THEN a - PI ELSE PI - a)

\* f64::atan2(y, x): the angle of the point (x, y), in (-pi, pi]
Atan2(y, x) ==
  IF IsNaN(y) \/ IsNaN(x) THEN NaN
  ELSE IF IsInf(y) /\ IsInf(x)
       THEN (IF y > 0 THEN 1 ELSE -1) * (IF x > 0 THEN Quot(PI, 4) ELSE 3 * Quot(PI, 4))
  ELSE IF x = 0 /\ y = 0 THEN 0
  ELSE IF x = 0 THEN (IF y > 0 THEN HalfPi ELSE -HalfPi)
  ELSE Quadrant(AtanPos(Abs(Div(y, x))), y, x)

\* f64::hypot
Hypot(a, b) ==
  IF IsInf(a) \/ IsInf(b) THEN PInf
  ELSE Sqrt(Add(Mul(a, a), Mul(b, b)))

\* f64::powf for a base r >= 0 (a norm)
Powf(r, e) ==
  IF IsNaN(e) \/ IsNaN(r) THEN (IF e = 0 THEN One ELSE NaN)
  ELSE IF e = 0 THEN One
  ELSE IF r = 0 THEN (IF e > 0 THEN 0 ELSE PInf)
  ELSE Exp(Mul(e, Ln(r)))


(***************************************************************************)
(* num_complex::Complex64 and the operations the crate uses on it.         *)
(***************************************************************************)
C(re, im) == [re |-> re, im |-> im]
I == C(0, One)                                    \* Complex64::new(0.0, 1.0)
COne == C(One, 0)                                 \* Complex64::new(1.0, 0.0)

CAdd(a, b) == C(Add(a.re, b.re), Add(a.im, b.im))
CSub(a, b) == C(Sub(a.re, b.re), Sub(a.im, b.im))
CNeg(a) == C(Neg(a.re), Neg(a.im))
CMul(a, b) == C(Sub(Mul(a.re, b.re), Mul(a.im, b.im)),
                Add(Mul(a.re, b.im), Mul(a.im, b.re)))
\* Complex * f64 and f64 * Complex scale both components
CScale(a, f) == C(Mul(a.re, f), Mul(a.im, f))
\* Complex + f64, Complex - f64 act on the real part
CAddR(a, f) == C(Add(a.re, f), a.im)
CSubR(a, f) == C(Sub(a.re, f), a.im)
\* f64 - Complex
RSubC(f, a) == C(Sub(f, a.re), Neg(a.im))
\* Complex / f64 divides both components
CDivR(a, f) == C(Div(a.re, f), Div(a.im, f))
CNormSqr(a) == Add(Mul(a.re, a.re), Mul(a.im, a.im))
CDiv(a, b) ==
  LET norm_sqr == CNormSqr(b)
      re == Add(Mul(a.re, b.re), Mul(a.im, b.im))
      im == Sub(Mul(a.im, b.re), Mul(a.re, b.im))
  IN C(Div(re, norm_sqr), Div(im, norm_sqr))
CFromPolar(r, theta) == C(Mul(r, Cos(theta)), Mul(r, Sin(theta)))
CNorm(a) == Hypot(a.re, a.im)
CArg(a) == Atan2(a.im, a.re)
CExp(a) == CFromPolar(Exp(a.re), a.im)
CLn(a) == C(Ln(CNorm(a)), CArg(a))
CSqrt(a) ==
  IF a.im = 0
  THEN (IF ~Lt(a.re, 0) THEN C(Sqrt(a.re), a.im) ELSE C(0, Sqrt(Neg(a.re))))
  ELSE IF a.re = 0
  THEN LET x == Sqrt(Div(Abs(a.im), 2 * One))
       IN IF ~Lt(a.im, 0) THEN C(x, x) ELSE C(x, Neg(x))
  ELSE CFromPolar(Sqrt(CNorm(a)), Div(CArg(a), 2 * One))
CPowf(a, e) ==
  IF e = 0 THEN COne ELSE CFromPolar(Powf(CNorm(a), e), Mul(CArg(a), e))
CIsFinite(a) == IsFinite(a.re) /\ IsFinite(a.im)

(***************************************************************************)
(* mod models: the characteristic functions.  A model is a record with its *)
(* struct's fields and the field kind naming the struct.                   *)
(***************************************************************************)
BlackScholes(sigma) == [kind |-> "BlackScholes", sigma |-> sigma]
Heston(kappa, theta, vol_of_vol, rho, v0) ==
  [kind |-> "Heston", kappa |-> kappa, theta |-> theta,
   vol_of_vol |-> vol_of_vol, rho |-> rho, v0 |-> v0]
VarianceGamma(sigma, nu, theta) ==
  [kind |-> "VarianceGamma", sigma |-> sigma, nu |-> nu, theta |-> theta]

BlackScholes_phi(self, u, t, s0, r, q) ==
  LET sigma2 == Mul(self.sigma, self.sigma)
      iu == CMul(I, u)
      drift == Add(Mul(Sub(Sub(r, q), Mul(Dec(1, 2), sigma2)), t), Ln(s0))
  IN CExp(CSub(CScale(iu, drift),
               CScale(CMul(CScale(u, Mul(Dec(1, 2), sigma2)), u), t)))

\* rho * sigma * iu
Heston_rsi(self, u) == CScale(CMul(I, u), Mul(self.rho, self.vol_of_vol))
\* kappa - rho * sigma * iu
Heston_kmr(self, u) == RSubC(self.kappa, Heston_rsi(self, u))
Heston_d(self, u) ==
  LET sigma == self.vol_of_vol
      a == CSubR(Heston_rsi(self, u), self.kappa)
  IN CSqrt(CAdd(CMul(a, a), CScale(CAdd(CMul(I, u), CMul(u, u)), Mul(sigma, sigma))))
Heston_g(kmr, d) == CDiv(CSub(kmr, d), CAdd(kmr, d))
Heston_c(self, t, kmr, d, g, exp_neg_d_t) ==
  LET sigma == self.vol_of_vol
  IN CScale(CSub(CScale(CSub(kmr, d), t),
                 CScale(CLn(CDiv(CSub(COne, CMul(g, exp_neg_d_t)), CSub(COne, g))),
                        2 * One)),
            Div(Mul(self.kappa, self.theta), Mul(sigma, sigma)))
Heston_d_term(self, kmr, d, g, exp_neg_d_t) ==
  LET sigma == self.vol_of_vol
  IN CMul(CDivR(CSub(kmr, d), Mul(sigma, sigma)),
          CDiv(CSub(COne, exp_neg_d_t), CSub(COne, CMul(g, exp_neg_d_t))))
\* the last line of phi, from kmr = kappa - rho * sigma * iu, d, g and exp(-d t)
Heston_exp(self, u, t, s0, r, q, kmr, d, g, exp_neg_d_t) ==
  CExp(CAdd(CAdd(CScale(CMul(I, u), Add(Ln(s0), Mul(Sub(r, q), t))),
                 CScale(Heston_d_term(self, kmr, d, g, exp_neg_d_t), self.v0)),
            Heston_c(self, t, kmr, d, g, exp_neg_d_t)))
Heston_from_d(self, u, t, s0, r, q, kmr, d) ==
  Heston_exp(self, u, t, s0, r, q, kmr, d, Heston_g(kmr, d), CExp(CScale(CNeg(d), t)))
Heston_phi(self, u, t, s0, r, q) ==
  Heston_from_d(self, u, t, s0, r, q, Heston_kmr(self, u), Heston_d(self, u))

\* the argument of the logarithm in the convexity correction omega
VG_log_arg(self) ==
  Sub(Sub(One, Mul(self.theta, self.nu)),
      Mul(Mul(Dec(1, 2), Mul(self.sigma, self.sigma)), self.nu))

VarianceGamma_phi(self, u, t, s0, r, q) ==
  LET iu == CMul(I, u)
      sigma2 == Mul(self.sigma, self.sigma)
      nu == self.nu
      theta == self.theta
      omega == Div(Neg(Ln(VG_log_arg(self))), nu)
      drift == Add(Ln(s0), Mul(Add(Sub(r, q), omega), t))
      base == CAdd(CSub(COne, CMul(CScale(CScale(I, theta), nu), u)),
                   CMul(CMul(C(Mul(Mul(Dec(1, 2), sigma2), nu), 0), u), u))
  IN CMul(CExp(CScale(iu, drift)), CPowf(base, Div(Neg(t), nu)))

\* trait CharacteristicFunction: the call model.phi(u, t, s0, r, q)
phi(model, u, t, s0, r, q) ==
  IF model.kind = "BlackScholes" THEN BlackScholes_phi(model, u, t, s0, r, q)
  ELSE IF model.kind = "Heston" THEN Heston_phi(model, u, t, s0, r, q)
  ELSE VarianceGamma_phi(model, u, t, s0, r, q)


(***************************************************************************)
(* mod fft_pricer: the pieces of price_calls_grid and price_put_at_strike. *)
(***************************************************************************)
UsizeBits == 64

CarrMadanParams(alpha, eta, n, beta) ==
  [alpha |-> alpha, eta |-> eta, n |-> n, beta |-> beta]

\* 1usize << n overflows when n >= usize::BITS: a debug build panics
ShlOverflows(n) == n >= UsizeBits
\* and a release build shifts by n modulo usize::BITS
Shl1(n) == Pow2(n % UsizeBits)

\* (a variant of Lambda that leaves the frequency step out of the spacing)
Lambda_without_eta(n_points, eta) == Div(Mul(2 * One, PI), FromInt(n_points))
Lambda(n_points, eta) == Div(Mul(2 * One, PI), Mul(FromInt(n_points), eta))
Discount(r, t) == Exp(Mul(Neg(r), t))

Denom(alpha, u_j) ==
  CAddR(CScale(I, Mul(Add(Mul(2 * One, alpha), One), u_j)),
        Sub(Add(Mul(alpha, alpha), alpha), Mul(u_j, u_j)))

\* (a variant of Weight with the weights of the odd and the even points swapped)
Weight_swapped(j) ==
  Div(IF j = 0 THEN One ELSE IF j % 2 = 1 THEN 2 * One ELSE 4 * One, 3 * One)

Weight(j) ==
  Div(IF j = 0 THEN One ELSE IF j % 2 = 1 THEN 4 * One ELSE 2 * One, 3 * One)

\* the locals of one pass of the loop over the frequency points
IntegrandLocals(j, eta, u_j, phi_val, denom, discount, weight, factor) ==
  LET psi == CDiv(CScale(phi_val, discount), denom)
      val == CScale(CMul(psi, factor), Mul(eta, weight))
  IN [j |-> j, u_j |-> u_j, phi_val |-> phi_val, denom |-> denom, psi |-> psi,
      weight |-> weight, factor |-> factor, val |-> val]

\* one pass of the loop over the frequency points
Integrand(model, s0, r, q, t, params, j) ==
  LET u_j == Mul(FromInt(j), params.eta)
      u_shifted == C(u_j, Neg(Add(params.alpha, One)))
  IN IntegrandLocals(j, params.eta, u_j, phi(model, u_shifted, t, s0, r, q),
                     Denom(params.alpha, u_j), Discount(r, t), Weight(j),
                     CExp(CScale(I, Mul(params.beta, u_j))))

\* e^(-2 pi i k / len): exact at the quarter turns
Twiddle(k, len) ==
  LET kk == k % len
  IN IF 4 * kk = 0 THEN C(One, 0)
     ELSE IF 4 * kk = len THEN C(0, -One)
     ELSE IF 4 * kk = 2 * len THEN C(-One, 0)
     ELSE IF 4 * kk = 3 * len THEN C(0, One)
     ELSE LET theta == Quot(2 * PI * kk, len)
          IN C(Cos(theta), -Sin(theta))

RECURSIVE DftSum(_, _, _)
\* y[1] w^0 + ... + y[j] w^((j-1) m), the first j terms of output m
DftSum(y, m, j) ==
  IF j = 0 THEN C(0, 0)
  ELSE CAdd(DftSum(y, m, j - 1), CMul(y[j], Twiddle((j - 1) * m, Len(y))))

\* rustfft's forward transform of length Len(y), unnormalised
FftForward(y) == [m \in 1..Len(y) |-> DftSum(y, m - 1, Len(y))]

GridK(beta, lambda, m) == Add(Neg(beta), Mul(FromInt(m), lambda))
GridCall(alpha, k_m, y_m) == Div(Mul(Exp(Neg(Mul(alpha, k_m))), y_m.re), PI)

\* (a variant of SelErr that keeps the sign of the distance)
SelErr_signed(k, target_k) == Sub(k, target_k)
\* (variants of SelBetter: a later point wins a tie; a NaN distance wins)
SelBetter_or_equal(err, best_err) == Le(err, best_err)
SelBetter_not_worse(err, best_err) == ~Le(best_err, err)
SelErr(k, target_k) == Abs(Sub(k, target_k))
SelBetter(err, best_err) == Lt(err, best_err)

\* (a variant of Parity with the signs of the two discounted terms swapped)
Parity_swapped(call_price, s0, r, q, t, k_strike) ==
  Sub(Add(call_price, Mul(s0, Exp(Mul(Neg(q), t)))), Mul(k_strike, Exp(Mul(Neg(r), t))))

Parity(call_price, s0, r, q, t, k_strike) ==
  Add(Sub(call_price, Mul(s0, Exp(Mul(Neg(q), t)))), Mul(k_strike, Exp(Mul(Neg(r), t))))

(***************************************************************************)
(* The binaries bs, heston and vg: their arguments and their output.       *)
(***************************************************************************)
\* Option<T>: None is <<>>, Some(v) is <<v>>
None == <<>>
Some(v) == <<v>>
IsSome(o) == Len(o) = 1

alpha_defaults == <<Dec(101, 100), Dec(125, 100), Dec(150, 100),
                    Dec(175, 100), Dec(200, 100), Dec(500, 100)>>
eta_defaults == <<Dec(10, 100), Dec(25, 100)>>
\* the binaries sweep n over 6 and 10 (grids of 64 and 1024 points); the
\* model sweeps two smaller exponents
SweepN1 == 1
SweepN2 == 2
n_defaults == <<SweepN1, SweepN2>>

\* the transform options of struct Args: bs and heston declare alpha, eta, n
HasTransformArgs(prog) == prog \in {"bs", "heston"}

\* {:.d} of an f64: the decimal rounded to d places, or NaN / inf / -inf
Fmt(x, d) ==
  IF IsNaN(x) THEN [txt |-> "NaN", digits |-> 0]
  ELSE IF x = PInf THEN [txt |-> "inf", digits |-> 0]
  ELSE IF x = NInf THEN [txt |-> "-inf", digits |-> 0]
  ELSE [txt |-> "num",
        digits |-> SgnI(x) * ((AbsI(x) \div Scale) * 10^d
                              + ((AbsI(x) % Scale) * 10^d + Scale \div 2) \div Scale)]

ModelLine(prog) == [line |-> "model", prog |-> prog]
HeaderLine == [line |-> "header"]
RowLine(eta, n, alpha, put) ==
  [line |-> "row", eta |-> Fmt(eta, 2), n |-> n, alpha |-> Fmt(alpha, 2),
   put |-> Fmt(put, 4)]


(***************************************************************************)
(* State.  A run is one of the binaries (prog is "bs", "heston" or "vg"),  *)
(* or one call of the library function price_put_at_strike (prog "lib").   *)
(***************************************************************************)
VARIABLES
  prog,          \* which program runs
  build,         \* "debug" (overflow checks on) or "release"
  args,          \* struct Args of the binary / the arguments of the call
  model,         \* the model the run prices with
  pc,            \* the position of the run
  status,        \* "running", "ok", "panic" or "usage_error"
  stdout,        \* the lines printed so far
  alpha_values, eta_values, n_values,   \* main: the swept values
  ei, ni, ai,    \* main: the positions of the three nested loops
  calls,         \* how many times price_put_at_strike was entered
  params,        \* price_put_at_strike: params
  k_strike,      \* price_put_at_strike: k_strike
  n_points, lambda,                     \* price_calls_grid: locals
  j, it, y,      \* the loop over the frequency points: next j, last pass, y
  y_fft,         \* y after fft.process
  m, k_grid, call_prices,               \* the loop over the outputs
  target_k, best_idx, best_err, idx,    \* the selector of price_put_at_strike
  call_price, put_price

inputs == <<prog, build, args, model>>
sweep == <<alpha_values, eta_values, n_values, ei, ni, ai>>
gridv == <<n_points, lambda, j, it, y, y_fft, m, k_grid, call_prices>>
selv == <<target_k, best_idx, best_err, idx, call_price, put_price>>
vars == <<inputs, pc, status, stdout, sweep, calls, params, k_strike, gridv, selv>>

MaxExp == 2

Market(s0, r, q, t) == [s0 |-> s0, r |-> r, q |-> q, t |-> t]
Markets == {Market(One, Dec(55, 1000), Dec(3, 100), One),
            Market(2 * One, 0, Dec(3, 100), Dec(1, 2))}

BsModels == {BlackScholes(Dec(3, 10))}
HestonModels == {Heston(2 * One, Dec(5, 100), Dec(3, 10), -Dec(7, 10), Dec(4, 100)),
                 Heston(2 * One, Dec(5, 100), 0, -Dec(7, 10), Dec(4, 100))}
VgModels == {VarianceGamma(Dec(3, 10), Dec(5, 10), -Dec(4, 10)),
             VarianceGamma(Dec(3, 10), Dec(5, 10), 3 * One),
             VarianceGamma(0, Dec(5, 10), 2 * One)}
ModelsOf(p) == IF p = "bs" THEN BsModels
               ELSE IF p = "heston" THEN HestonModels ELSE VgModels

MkArgs(mk, k, alpha, eta, n, beta) ==
  [s0 |-> mk.s0, k |-> k, r |-> mk.r, q |-> mk.q, t |-> mk.t,
   alpha |-> alpha, eta |-> eta, n |-> n, beta |-> beta]

\* log-strike shifts that put ln 1 = 0 on a grid point (i even) or halfway
\* between two grid points (i odd), and three others
BetaChoices(n, eta) ==
  {Quot(i * Lambda(Shl1(n), eta), 2) : i \in 0..3} \cup {Ln(2 * One), -Ln(2 * One), NaN}
\* library calls that vary the grid and the strike
LibGridArgs ==
  UNION {{MkArgs(Market(One, Dec(55, 1000), Dec(3, 100), One), k,
                 Some(Dec(101, 100)), Some(eta), Some(n), Some(beta)) :
            k \in {One, 2 * One, Exp(PI), 0, -One},
            beta \in BetaChoices(n, eta)} :
         n \in 0..MaxExp, eta \in {Dec(25, 100), One}}
\* library calls that vary the model, the market and the damping
LibModelArgs ==
  {MkArgs(mk, 2 * One, Some(alpha), Some(Dec(25, 100)), Some(MaxExp), Some(Ln(2 * One))) :
     mk \in Markets,
     alpha \in {Dec(150, 100), 0, -One, -Dec(1, 2)}}
\* library calls whose exponent reaches the width of usize
LibShiftArgs ==
  {MkArgs(Market(One, Dec(55, 1000), Dec(3, 100), One), 2 * One,
          Some(Dec(150, 100)), Some(Dec(25, 100)), Some(n), Some(Ln(2 * One))) :
     n \in UsizeBits..(UsizeBits + MaxExp)}
\* command lines of the binaries
CliArgs ==
  {MkArgs(Market(One, Dec(55, 1000), Dec(3, 100), One), k, alpha, eta, n, None) :
     k \in {2 * One, -One},
     alpha \in {None, Some(0), Some(Dec(150, 100))},
     eta \in {None, Some(Dec(25, 100))},
     n \in {None, Some(1), Some(UsizeBits)}}

Init ==
  /\ \/ /\ prog = "lib" /\ build = "release"
        /\ args \in LibGridArgs /\ model \in BsModels
     \/ /\ prog = "lib" /\ build = "release"
        /\ args \in LibModelArgs /\ model \in BsModels \cup HestonModels \cup VgModels
     \/ /\ prog = "lib" /\ build \in {"debug", "release"}
        /\ args \in LibShiftArgs /\ model \in BsModels
     \/ /\ prog \in {"bs", "heston", "vg"} /\ build \in {"debug", "release"}
        /\ args \in CliArgs /\ model \in ModelsOf(prog)
  /\ pc = "start" /\ status = "running" /\ stdout = <<>>
  /\ alpha_values = <<>> /\ eta_values = <<>> /\ n_values = <<>>
  /\ ei = 0 /\ ni = 0 /\ ai = 0 /\ calls = 0
  /\ params = CarrMadanParams(0, 0, 0, 0) /\ k_strike = 0
  /\ n_points = 0 /\ lambda = 0 /\ j = 0 /\ y = <<>> /\ y_fft = <<>>
  /\ it = [j |-> 0, u_j |-> 0, phi_val |-> C(0, 0), denom |-> C(One, 0),
           psi |-> C(0, 0), weight |-> 0, factor |-> C(0, 0), val |-> C(0, 0)]
  /\ m = 0 /\ k_grid = <<>> /\ call_prices = <<>>
  /\ target_k = 0 /\ best_idx = 0 /\ best_err = PInf /\ idx = 0
  /\ call_price = 0 /\ put_price = 0

(***************************************************************************)
(* main of bs.rs, heston.rs and vg.rs.                                     *)
(***************************************************************************)
\* Args::parse() to the head of the first pass of the loops
main_start ==
  /\ pc = "start" /\ prog # "lib"
  /\ IF ~HasTransformArgs(prog) /\ (IsSome(args.alpha) \/ IsSome(args.eta) \/ IsSome(args.n))
     THEN \* clap: unexpected argument, exit before anything is printed
          /\ status' = "usage_error" /\ pc' = "done"
          /\ UNCHANGED <<stdout, sweep, params, k_strike>>
     ELSE /\ alpha_values' = IF IsSome(args.alpha) THEN args.alpha ELSE alpha_defaults
          /\ eta_values' = IF IsSome(args.eta) THEN args.eta ELSE eta_defaults
          /\ n_values' = IF IsSome(args.n) THEN args.n ELSE n_defaults
          /\ stdout' = <<ModelLine(prog), HeaderLine>>
          /\ ei' = 1 /\ ni' = 1 /\ ai' = 1
          /\ params' = CarrMadanParams(alpha_values'[1], eta_values'[1], n_values'[1],
                                       Ln(args.k))
          /\ k_strike' = args.k
          /\ pc' = "call" /\ UNCHANGED status
  /\ UNCHANGED <<inputs, calls, gridv, selv>>

\* a caller of the library: price_put_at_strike(&model, s0, r, q, t, params, k)
lib_start ==
  /\ pc = "start" /\ prog = "lib"
  /\ params' = CarrMadanParams(args.alpha[1], args.eta[1], args.n[1], args.beta[1])
  /\ k_strike' = args.k
  /\ pc' = "call"
  /\ UNCHANGED <<inputs, status, stdout, sweep, calls, gridv, selv>>

(***************************************************************************)
(* price_calls_grid.                                                       *)
(***************************************************************************)
\* entry of price_put_at_strike and of price_calls_grid, to the first loop
price_calls_grid_begin ==
  /\ pc = "call"
  /\ calls' = calls + 1
  /\ IF build = "debug" /\ ShlOverflows(params.n)
     THEN \* attempt to shift left with overflow
          /\ status' = "panic" /\ pc' = "done"
          /\ UNCHANGED gridv
     ELSE /\ n_points' = Shl1(params.n)
          /\ lambda' = Lambda(n_points', params.eta)
          /\ y' = <<>> /\ j' = 0
          /\ y_fft' = <<>> /\ m' = 0 /\ k_grid' = <<>> /\ call_prices' = <<>>
          /\ pc' = "integrand"
          /\ UNCHANGED <<status, it>>
  /\ UNCHANGED <<inputs, stdout, sweep, params, k_strike, selv>>

\* one pass of: for j in 0..n_points
integrand_step ==
  /\ pc = "integrand"
  /\ it' = Integrand(model, args.s0, args.r, args.q, args.t, params, j)
  /\ y' = Append(y, it'.val)
  /\ j' = j + 1
  /\ pc' = IF j + 1 < n_points THEN "integrand" ELSE "fft"
  /\ UNCHANGED <<inputs, status, stdout, sweep, calls, params, k_strike, selv,
                 n_points, lambda, y_fft, m, k_grid, call_prices>>

\* fft.process(&mut y_fft)
fft_process ==
  /\ pc = "fft"
  /\ y_fft' = FftForward(y)
  /\ pc' = "assemble"
  /\ UNCHANGED <<inputs, status, stdout, sweep, calls, params, k_strike, selv,
                 n_points, lambda, j, it, y, m, k_grid, call_prices>>

\* one pass of: for m in 0..n_points
assemble_step ==
  /\ pc = "assemble"
  /\ LET k_m == GridK(params.beta, lambda, m)
         c_m == GridCall(params.alpha, k_m, y_fft[m + 1])
     IN /\ k_grid' = Append(k_grid, k_m)
        /\ call_prices' = Append(call_prices, c_m)
  /\ m' = m + 1
  /\ pc' = IF m + 1 < n_points THEN "assemble" ELSE "select_init"
  /\ UNCHANGED <<inputs, status, stdout, sweep, calls, params, k_strike, selv,
                 n_points, lambda, j, it, y, y_fft>>

(***************************************************************************)
(* price_put_at_strike, after the grid is returned.                        *)
(***************************************************************************)
select_init ==
  /\ pc = "select_init"
  /\ target_k' = Ln(k_strike)
  /\ best_idx' = 0
  /\ best_err' = PInf
  /\ idx' = 0
  /\ pc' = IF Len(k_grid) > 0 THEN "select" ELSE "parity"
  /\ UNCHANGED <<inputs, status, stdout, sweep, calls, params, k_strike, gridv,
                 call_price, put_price>>

\* one pass of: for (idx, &k) in grid.k.iter().enumerate()
select_step ==
  /\ pc = "select"
  /\ LET err == SelErr(k_grid[idx + 1], target_k)
     IN IF SelBetter(err, best_err)
        THEN best_err' = err /\ best_idx' = idx
        ELSE UNCHANGED <<best_err, best_idx>>
  /\ idx' = idx + 1
  /\ pc' = IF idx + 1 < Len(k_grid) THEN "select" ELSE "parity"
  /\ UNCHANGED <<inputs, status, stdout, sweep, calls, params, k_strike, gridv,
                 target_k, call_price, put_price>>

\* grid.call_prices[best_idx] and the put by parity
parity ==
  /\ pc = "parity"
  /\ call_price' = call_prices[best_idx + 1]
  /\ put_price' = Parity(call_price', args.s0, args.r, args.q, args.t, k_strike)
  /\ pc' = "return"
  /\ UNCHANGED <<inputs, status, stdout, sweep, calls, params, k_strike, gridv,
                 target_k, best_idx, best_err, idx>>

\* the library call returns put_price to its caller
lib_return ==
  /\ pc = "return" /\ prog = "lib"
  /\ status' = "ok" /\ pc' = "done"
  /\ UNCHANGED <<inputs, stdout, sweep, calls, params, k_strike, gridv, selv>>

\* main: println! of the row, then the next pass of the loops or the end
print_row ==
  /\ pc = "return" /\ prog # "lib"
  /\ stdout' = Append(stdout, RowLine(params.eta, params.n, params.alpha, put_price))
  /\ IF ai < Len(alpha_values)
     THEN ai' = ai + 1 /\ UNCHANGED <<ni, ei>>
     ELSE IF ni < Len(n_values)
     THEN ai' = 1 /\ ni' = ni + 1 /\ UNCHANGED ei
     ELSE ai' = 1 /\ ni' = 1 /\ ei' = ei + 1
  /\ IF ei' <= Len(eta_values)
     THEN /\ params' = CarrMadanParams(alpha_values[ai'], eta_values[ei'], n_values[ni'],
                                       Ln(args.k))
          /\ pc' = "call" /\ UNCHANGED status
     ELSE /\ status' = "ok" /\ pc' = "done" /\ UNCHANGED params
  /\ UNCHANGED <<inputs, alpha_values, eta_values, n_values, calls, k_strike, gridv, selv>>

Next ==
  \/ main_start
  \/ lib_start
  \/ price_calls_grid_begin
  \/ integrand_step
  \/ fft_process
  \/ assemble_step
  \/ select_init
  \/ select_step
  \/ parity
  \/ lib_return
  \/ print_row

Spec == Init /\ [][Next]_vars


(***************************************************************************)
(* Properties.                                                             *)
(***************************************************************************)
\* == of f64: NaN equals nothing
FEq(a, b) == ~IsNaN(a) /\ ~IsNaN(b) /\ a = b
GridIdx == 0..(Len(k_grid) - 1)
\* |logStrikes[i] - ln K|
Dist(i) == Abs(Sub(k_grid[i + 1], target_k))
DiscountedSpot == Mul(args.s0, Exp(Mul(Neg(args.q), args.t)))
DiscountedStrike == Mul(k_strike, Exp(Mul(Neg(args.r), args.t)))
\* a pass of the loop over the frequency points has run in the current call
PassDone == pc \in {"integrand", "fft"} /\ j > 0
\* price_calls_grid has returned its grid in the current call
GridDone == pc \in {"select_init", "select", "parity", "return"}
Rows == {i \in 1..Len(stdout) : stdout[i].line = "row"}

\* C1: price_put_at_strike selects the index that minimizes
\* |logStrikes[idx] - ln K|, the lowest one when several indices are at the
\* minimal distance, and the put is computed from callPrices at that index.
C1_NearestFirst ==
  (pc = "return" /\ \A i \in GridIdx : ~IsNaN(Dist(i)))
    => /\ best_idx \in GridIdx
       /\ \A i \in GridIdx : Dist(best_idx) <= Dist(i)
       /\ \A i \in GridIdx : i < best_idx => Dist(best_idx) < Dist(i)
       /\ call_price = call_prices[best_idx + 1]
       /\ put_price = Add(Sub(call_prices[best_idx + 1], DiscountedSpot), DiscountedStrike)
\* two grid points at the same minimal distance, the lower one (not 0) selected
C1_Witness ==
  /\ pc = "return" /\ best_idx >= 1
  /\ IsFinite(Dist(best_idx))
  /\ \E i \in GridIdx : i > best_idx /\ Dist(i) = Dist(best_idx)

\* C2: when ln K equals logStrikes[m], the selector reads callPrices[m], the
\* call price of that same index m.
C2_StrikeOnGrid ==
  \A mm \in GridIdx :
    (pc = "return" /\ FEq(target_k, k_grid[mm + 1]))
      => best_idx = mm /\ call_price = call_prices[mm + 1]
C2_Witness ==
  /\ pc = "return"
  /\ \E mm \in GridIdx : mm >= 1 /\ FEq(target_k, k_grid[mm + 1]) /\ best_idx = mm
  /\ IsFinite(call_price) /\ call_price # call_prices[1]

\* C3: for every exponent n the returned grid has k and call_prices of the
\* same length, and that length is exactly 2^n.
C3_GridLength ==
  pc = "select_init"
    => /\ Len(k_grid) = Len(call_prices)
       /\ Log2Floor(Len(k_grid)) = params.n
       /\ Len(k_grid) = Pow2(Log2Floor(Len(k_grid)))

\* C4: logStrikes[m] = -beta + m * lambda for every m, and lambda * eta * N
\* = 2 pi: lambda is the quotient of 2 pi by N * eta, rounded once, so it is
\* fixed by eta and N alone.
C4_GridSpacing ==
  GridDone
    => /\ Len(k_grid) = n_points
       /\ \A mm \in GridIdx :
            k_grid[mm + 1] = Add(Neg(params.beta), Mul(FromInt(mm), lambda))
       /\ IsFinite(lambda)
       /\ 2 * AbsI(lambda * (n_points * params.eta) - 2 * PI * Scale)
            <= n_points * params.eta
C4_Witness ==
  /\ pc = "select_init" /\ Len(k_grid) >= 4
  /\ params.eta # One /\ params.beta # 0
  /\ \A mm \in GridIdx : IsFinite(k_grid[mm + 1])

\* C5: put = call - s0 e^(-q t) + K e^(-r t) with call the call price at the
\* selected index, and call recomputed from the put by parity is that call
\* price again.
C5_ParityRoundTrip ==
  pc = "return"
    => /\ put_price = Add(Sub(call_prices[best_idx + 1], DiscountedSpot), DiscountedStrike)
       /\ IsFinite(put_price)
            => Sub(Add(put_price, DiscountedSpot), DiscountedStrike)
                 = call_prices[best_idx + 1]
C5_Witness ==
  /\ pc = "return" /\ best_idx >= 1
  /\ IsFinite(put_price) /\ call_price # 0 /\ k_strike > 0
  /\ DiscountedSpot # DiscountedStrike

\* C6: a pricing request that fails (the log-argument of the pure-jump model
\* not positive, or a non-finite put) ends in an error, not in a price:
\* price_put_at_strike never returns a price for a model outside its domain,
\* and no row with a non-finite put is printed for a failed combination.
ModelValid == model.kind = "VarianceGamma" => Lt(0, VG_log_arg(model))
C6_FailureIsAnError ==
  /\ pc = "return" => ModelValid
  /\ \A i \in Rows : stdout[i].put.txt = "num"

\* C7: each of bs, heston and vg accepts the optional alpha, eta and n; what
\* is supplied is the single value and what is omitted is swept over its
\* default set; one call of price_put_at_strike and one row per combination
\* (a run that panics aside).
Combinations ==
  (IF IsSome(args.alpha) THEN 1 ELSE Len(alpha_defaults))
  * (IF IsSome(args.eta) THEN 1 ELSE Len(eta_defaults))
  * (IF IsSome(args.n) THEN 1 ELSE Len(n_defaults))
C7_OneRowPerCombination ==
  (pc = "done" /\ prog # "lib" /\ status # "panic")
    => /\ status = "ok"
       /\ calls = Combinations
       /\ Cardinality(Rows) = Combinations
       /\ Len(stdout) = Combinations + 2

\* C8: the weight of point j is 1/3 for j = 0, 4/3 for odd j and 2/3 for
\* even nonzero j, the last point j = N - 1 included, and the term pushed
\* into the transform's input is the integrand times eta * w_j.
SimpsonWeight(jj) ==
  IF jj = 0 THEN Div(One, 3 * One)
  ELSE IF jj % 2 = 1 THEN Div(4 * One, 3 * One) ELSE Div(2 * One, 3 * One)
C8_Weights ==
  PassDone
    => /\ it.j = j - 1 /\ Len(y) = j
       /\ it.weight = SimpsonWeight(it.j)
       /\ y[j] = CScale(CMul(it.psi, it.factor), Mul(params.eta, SimpsonWeight(it.j)))
C8_Witness ==
  /\ pc = "fft" /\ n_points >= 4 /\ it.j = n_points - 1
  /\ it.weight = Div(4 * One, 3 * One)
  /\ CIsFinite(y[j]) /\ y[j] # C(0, 0)

\* C9: the denominator (alpha^2 + alpha - u_j^2) + i (2 alpha + 1) u_j is
\* never zero when price_calls_grid divides by it (an alpha of 0 or -1 would
\* have to be rejected before price_calls_grid is entered for this to hold).
C9_DenominatorNonzero ==
  PassDone => it.denom # C(0, 0)

\* C10: the selected index is always an index of the grid, and when no
\* distance is smaller than +infinity (ln K is -infinity or NaN, or the
\* log-strikes are NaN) the selector keeps index 0 and the put is returned
\* from callPrices[0], no error being signalled.
NoDistanceBelowInfinity == \A i \in GridIdx : ~Lt(Dist(i), PInf)
C10_IndexInGrid ==
  /\ pc \in {"select", "parity", "return"}
       => best_idx \in GridIdx /\ Len(call_prices) = Len(k_grid)
  /\ (pc = "return" /\ NoDistanceBelowInfinity)
       => /\ best_idx = 0 /\ best_err = PInf
          /\ call_price = call_prices[1]
          /\ put_price = Add(Sub(call_prices[1], DiscountedSpot), DiscountedStrike)
          /\ status = "running"
C10_Witness ==
  /\ pc = "return" /\ Len(k_grid) >= 2
  /\ k_strike < 0 /\ IsNaN(target_k)
  /\ NoDistanceBelowInfinity /\ best_idx = 0

=============================================================================
